---- MODULE Spec2Model ----
(***************************************************************************)
(* card_emu: USB vendor protocol engine (src/src/bridge.rs), its poll loop *)
(* (src/src/main.rs) and the bootloader dispatcher (src/src/rom.rs).       *)
(*                                                                         *)
(* One execution context runs the poll loop and every handler; the two PIO *)
(* state machines run beside it and are the only other actors.  A handler  *)
(* is cut into steps at its hardware interactions (FIFO status reads,      *)
(* pushes, pops), because the state machines move between them.            *)
(***************************************************************************)
EXTENDS Integers, Sequences, FiniteSets, TLC

(***************************************************************************)
(* Bounds of the model.                                                    *)
(***************************************************************************)
\* Capacity of the receive and of the send buffer.  The firmware sets both
\* to 64 (bridge.rs:12-13); the model keeps every use of the capacity and
\* scales the number down.
BufCap == 3

\* Depth of one PIO FIFO (TX or RX) of a state machine.
FifoDepth == 2

(***************************************************************************)
(* Program constants.                                                      *)
(***************************************************************************)
OP_Write == 0
OP_Read == 1
OP_WriteFromBuf == 16
OP_ReadIntoBuf == 17
OP_WriteBitsFromBuf == 18
OP_GetRecvLen == 128
OP_GetSendLen == 129
OP_RebootToUSB == 255

\* u8::BITS
U8_BITS == 8

\* size_of::<u32>()
SIZE_OF_U32 == 4

BRIDGE_WRITE_SIZE == BufCap
BRIDGE_READ_SIZE == BufCap

(***************************************************************************)
(* Input domains.                                                          *)
(***************************************************************************)
\* Payload bytes the host sends on the bulk-out endpoint.
Bytes == {170, 187, 204}                    \* 0xAA, 0xBB, 0xCC

\* Bulk-out packets the host may have sent when the endpoint is read.
Packets == {<<170>>, <<187, 204>>, <<170, 187, 204>>, <<>>}

\* Request value fields: 0x0300, 0x0500, and 0x0501 (bit 0 set: OR with a
\* payload byte or bit then differs from addition).
Values == {768, 1280, 1281}

\* Opcode bytes outside the command set.
UnknownOpcodes == {2, 127}

\* Words the read state machine may deliver into its RX FIFO (32-bit FIFO
\* entries; the second does not fit a byte).
ReadResults == {126, 421}                   \* 0x7E, 0x1A5

(***************************************************************************)
(* Integer helpers: the bit operations the code uses on u8/u16.            *)
(***************************************************************************)
RECURSIVE BitOr(_, _)
BitOr(a, b) ==
    IF a = 0 THEN b
    ELSE IF b = 0 THEN a
    ELSE (IF a % 2 = 1 \/ b % 2 = 1 THEN 1 ELSE 0) + 2 * BitOr(a \div 2, b \div 2)

RECURSIVE BitAnd(_, _)
BitAnd(a, b) ==
    IF a = 0 \/ b = 0 THEN 0
    ELSE (IF a % 2 = 1 /\ b % 2 = 1 THEN 1 ELSE 0) + 2 * BitAnd(a \div 2, b \div 2)

Shr(a, i) == a \div (2 ^ i)

Shl(a, i) == a * (2 ^ i)

\* `x as u8`
AsU8(x) == x % 256

\* Mutant of to_be_bytes: least significant byte first.
to_le_bytes(n) ==
    << n % 256, (n \div 256) % 256, (n \div 65536) % 256, (n \div 16777216) % 256 >>

\* u32::to_be_bytes.  (`self.recv_len as u32` before it keeps the value:
\* usize has 32 bits on the target.)
to_be_bytes(n) ==
    << (n \div 16777216) % 256, (n \div 65536) % 256, (n \div 256) % 256, n % 256 >>

(***************************************************************************)
(* State.                                                                  *)
(***************************************************************************)
VARIABLES
    pc,           \* where the single execution context is
    req,          \* the control request being handled (xfer.request())
    resp,         \* responses emitted for that transfer, in order
    send_buffer,  \* Bridge.send_buffer
    send_len,     \* Bridge.send_len
    recv_buffer,  \* Bridge.recv_buffer
    recv_len,     \* Bridge.recv_len
    write_tx,     \* words waiting in the TX FIFO of the write state machine
    read_tx,      \* words waiting in the TX FIFO of the read state machine
    read_rx,      \* RX FIFO of the read state machine
    to_write,     \* local of WriteFromBuf / WriteBitsFromBuf
    b_idx,        \* position of `for &b in &recv_buffer[..to_write]`
    i,            \* position of `for i in 0..u8::BITS`
    entry,        \* buffers as the running handler found them
    pushed,       \* words the running handler pushed to write_tx
    requested,    \* words the running handler pushed to read_tx
    popped,       \* words the running handler popped from read_rx
    since_reset,  \* a link reset happened and no bulk byte arrived since
    rej_len,      \* recv_len before the command just rejected, else -1
    io,           \* what the last Bridge::read / Bridge::write did and found
    boot,         \* arguments of ROM::reset_usb_boot
    rom_calls,    \* calls made into ROM code, in order
    panic_info,   \* message and number of the panic that halted the device
    hw_reads,     \* ROM locations and CPU state ROM::reset_usb_boot read, in order
    rom_ret       \* values ROM calls declared to return a status returned

vars == << pc, req, resp, send_buffer, send_len, recv_buffer, recv_len,
           write_tx, read_tx, read_rx, to_write, b_idx, i, entry, pushed,
           requested, popped, since_reset, rej_len, io, boot, rom_calls,
           panic_info, hw_reads, rom_ret >>

bridge == << send_buffer, send_len, recv_buffer, recv_len >>
fifos == << write_tx, read_tx, read_rx >>
locals == << to_write, b_idx, i >>
history == << pushed, requested, popped >>
marks == << since_reset, rej_len >>
rom == << boot, rom_calls, panic_info, hw_reads, rom_ret >>

NoPanic == [msg |-> "", code |-> 0]

NoReq == [direction |-> "None", request_type |-> "None", request |-> 0,
          value |-> 0, index |-> 0]

NoEntry == [recv_buffer |-> << >>, recv_len |-> 0, send_buffer |-> << >>, send_len |-> 0]

NoBoot == [activity_gpio |-> -1, disable_usb |-> FALSE, disable_picoboot |-> FALSE]

\* No bulk operation since the last control request or link reset.
NoIo == [op |-> "none", result |-> "none", amount |-> 0, touched |-> FALSE,
         before |-> NoEntry]

\* Control requests the host may issue in one direction.  The count of the
\* buffered writes ranges past the capacity; the other commands ignore index.
Requests(dir) ==
    [direction : {dir}, request_type : {"Vendor"},
     request : {OP_WriteFromBuf, OP_WriteBitsFromBuf},
     value : Values, index : 0 .. BufCap + 1]
    \cup [direction : {dir}, request_type : {"Vendor"}, request : {OP_Write, OP_Read},
          value : Values, index : {0}]
    \cup [direction : {dir}, request_type : {"Vendor"},
          request : {OP_ReadIntoBuf, OP_GetRecvLen, OP_GetSendLen, OP_RebootToUSB}
                    \cup UnknownOpcodes,
          value : {0}, index : {0}]
    \cup [direction : {dir}, request_type : {"Standard"}, request : {OP_Write},
          value : {0}, index : {0}]

(***************************************************************************)
(* ControlCommand::try_from                                                *)
(***************************************************************************)
Ok(c) == [ok |-> TRUE, cmd |-> c, err |-> 0]
Err(e) == [ok |-> FALSE, cmd |-> "", err |-> e]

\* Mutant of try_from: the default arm yields a command.
try_from_default_write(value) ==
    CASE value = 0 -> Ok("Write")
      [] value = 1 -> Ok("Read")
      [] value = 16 -> Ok("WriteFromBuf")
      [] value = 17 -> Ok("ReadIntoBuf")
      [] value = 18 -> Ok("WriteBitsFromBuf")
      [] value = 128 -> Ok("GetRecvLen")
      [] value = 129 -> Ok("GetSendLen")
      [] value = 255 -> Ok("RebootToUSB")
      [] OTHER -> Ok("Write")

try_from(value) ==
    CASE value = 0 -> Ok("Write")
      [] value = 1 -> Ok("Read")
      [] value = 16 -> Ok("WriteFromBuf")
      [] value = 17 -> Ok("ReadIntoBuf")
      [] value = 18 -> Ok("WriteBitsFromBuf")
      [] value = 128 -> Ok("GetRecvLen")
      [] value = 129 -> Ok("GetSendLen")
      [] value = 255 -> Ok("RebootToUSB")
      [] OTHER -> Err(value)

(***************************************************************************)
(* Collaborators: the control transfer and the PIO FIFOs.                  *)
(***************************************************************************)
\* xfer.accept(|buf| ...) with the data stage written, xfer.reject()
accept(data) == Append(resp, [kind |-> "accept", data |-> data])
reject == Append(resp, [kind |-> "reject", data |-> << >>])

\* The program sees of a TX FIFO only whether it is full or empty, so a TX
\* FIFO is the number of words in it; the words a handler pushed are kept,
\* in order, in pushed and requested.  The RX FIFO is the words themselves.
\* Tx::is_full, Tx::is_empty, Rx::is_empty
is_full(fifo) == fifo >= FifoDepth
is_empty(fifo) == fifo = 0
rx_is_empty(fifo) == Len(fifo) = 0

\* Tx::write_u16_replicated: the word enters the FIFO unless it is full;
\* the result says which.  hw_ok = FALSE is hardware that breaks this
\* contract and refuses a word it has room for.
write_u16_replicated(fifo, word, hw_ok) ==
    IF is_full(fifo) \/ ~hw_ok THEN [accepted |-> FALSE, fifo |-> fifo]
    ELSE [accepted |-> TRUE, fifo |-> fifo + 1]

\* Mutant of copy_within: source and destination exchanged.
copy_within_swapped(buf, from, to, dest) ==
    [k \in 0 .. BufCap - 1 |->
        IF k >= from /\ k < to THEN buf[dest + (k - from)] ELSE buf[k]]

\* slice.copy_within(from..to, dest) on an array of length BufCap
copy_within(buf, from, to, dest) ==
    [k \in 0 .. BufCap - 1 |->
        IF k >= dest /\ k < dest + (to - from) THEN buf[from + (k - dest)] ELSE buf[k]]

Init ==
    /\ pc = "poll"
    /\ req = NoReq
    /\ resp = << >>
    /\ send_buffer = [k \in 0 .. BRIDGE_WRITE_SIZE - 1 |-> 0]
    /\ send_len = 0
    /\ recv_buffer = [k \in 0 .. BRIDGE_READ_SIZE - 1 |-> 0]
    /\ recv_len = 0
    /\ write_tx = 0
    /\ read_tx = 0
    /\ read_rx = << >>
    /\ to_write = 0
    /\ b_idx = 0
    /\ i = 0
    /\ entry = NoEntry
    /\ pushed = << >>
    /\ requested = << >>
    /\ popped = << >>
    /\ since_reset = FALSE
    /\ rej_len = -1
    /\ boot = NoBoot
    /\ rom_calls = << >>
    /\ panic_info = NoPanic
    /\ io = NoIo
    /\ hw_reads = << >>
    /\ rom_ret = << >>

\* A control handler starts: the transfer has no response yet and the
\* handler's own pushes and pops start empty.
Enter(r) ==
    /\ pc = "poll"
    /\ req' = r
    /\ entry' = [recv_buffer |-> recv_buffer, recv_len |-> recv_len,
                 send_buffer |-> send_buffer, send_len |-> send_len]
    /\ io' = NoIo

(***************************************************************************)
(* UsbClass::reset                                                         *)
(***************************************************************************)
\* Mutant of reset: recv_len is left as it is.
reset_keeps_recv_len ==
    /\ pc = "poll"
    /\ send_len' = 0
    /\ recv_len' = recv_len
    /\ since_reset' = TRUE
    /\ rej_len' = -1
    /\ io' = NoIo
    /\ UNCHANGED << pc, req, resp, send_buffer, recv_buffer, fifos, locals,
                    entry, history, rom >>

reset ==
    /\ pc = "poll"
    /\ send_len' = 0
    /\ recv_len' = 0
    /\ since_reset' = TRUE
    /\ rej_len' = -1
    /\ io' = NoIo
    /\ UNCHANGED << pc, req, resp, send_buffer, recv_buffer, fifos, locals,
                    entry, history, rom >>

(***************************************************************************)
(* UsbClass::control_in                                                    *)
(***************************************************************************)
control_in_Read(r, hw_ok) ==
    /\ Enter(r)
    /\ r.request_type = "Vendor"
    /\ try_from(r.request) = Ok("Read")
    /\ LET w == write_u16_replicated(read_tx, r.value, hw_ok) IN
        /\ read_tx' = w.fifo
        /\ IF w.accepted
           THEN /\ requested' = Append(requested, r.value)
                /\ resp' = resp
                /\ pc' = "read_wait"
           ELSE /\ requested' = requested
                /\ resp' = reject
                /\ pc' = "ret"
    /\ UNCHANGED << bridge, write_tx, read_rx, locals, pushed, popped, marks, rom >>

\* Mutant of Read_wait: the busy-wait is missing.
Read_does_not_wait ==
    /\ pc = "read_wait"
    /\ pc' = "read_pop"
    /\ UNCHANGED << req, resp, bridge, fifos, locals, entry, io, history, marks, rom >>

\* `while self.read_rx.is_empty() {}` left
Read_wait ==
    /\ pc = "read_wait"
    /\ ~rx_is_empty(read_rx)
    /\ pc' = "read_pop"
    /\ UNCHANGED << req, resp, bridge, fifos, locals, entry, io, history, marks, rom >>

\* `if let Some(b) = self.read_rx.read()`
Read_pop ==
    /\ pc = "read_pop"
    /\ IF ~rx_is_empty(read_rx)
       THEN /\ read_rx' = Tail(read_rx)
            /\ popped' = Append(popped, Head(read_rx))
            /\ resp' = accept(<< AsU8(Head(read_rx)) >>)
       ELSE /\ resp' = reject
            /\ UNCHANGED << read_rx, popped >>
    /\ pc' = "ret"
    /\ UNCHANGED << req, bridge, write_tx, read_tx, locals, entry, io, pushed,
                    requested, marks, rom >>

control_in_GetRecvLen(r) ==
    /\ Enter(r)
    /\ r.request_type = "Vendor"
    /\ try_from(r.request) = Ok("GetRecvLen")
    /\ resp' = accept(to_be_bytes(recv_len))
    /\ pc' = "ret"
    /\ UNCHANGED << bridge, fifos, locals, history, marks, rom >>

control_in_GetSendLen(r) ==
    /\ Enter(r)
    /\ r.request_type = "Vendor"
    /\ try_from(r.request) = Ok("GetSendLen")
    /\ resp' = accept(to_be_bytes(send_len))
    /\ pc' = "ret"
    /\ UNCHANGED << bridge, fifos, locals, history, marks, rom >>

\* `Ok(c) => todo!(...)`: a panic, and panic_halt stops the device
control_in_todo(r) ==
    /\ Enter(r)
    /\ r.request_type = "Vendor"
    /\ try_from(r.request).ok
    /\ try_from(r.request).cmd \notin {"Read", "GetRecvLen", "GetSendLen"}
    /\ pc' = "panic"
    /\ panic_info' = [msg |-> "unimplemented command", code |-> r.request]
    /\ UNCHANGED << resp, bridge, fifos, locals, history, marks, boot, rom_calls,
                    hw_reads, rom_ret >>

control_in_Err(r) ==
    /\ Enter(r)
    /\ r.request_type = "Vendor"
    /\ ~try_from(r.request).ok
    /\ resp' = reject
    /\ pc' = "ret"
    /\ UNCHANGED << bridge, fifos, locals, history, marks, rom >>

\* request_type is not Vendor: the class leaves the transfer alone
control_in_not_vendor(r) ==
    /\ Enter(r)
    /\ r.request_type # "Vendor"
    /\ pc' = "ret"
    /\ UNCHANGED << resp, bridge, fifos, locals, history, marks, rom >>

control_in(hw_ok) ==
    \E r \in Requests("In") :
        \/ control_in_Read(r, hw_ok)
        \/ control_in_GetRecvLen(r)
        \/ control_in_GetSendLen(r)
        \/ control_in_todo(r)
        \/ control_in_Err(r)
        \/ control_in_not_vendor(r)

(***************************************************************************)
(* UsbClass::control_out                                                   *)
(***************************************************************************)
\* Mutant of exceeds_recv_len: the count is held against the capacity.
exceeds_capacity(n) == n > BRIDGE_READ_SIZE

\* `if to_write > self.recv_len` of WriteFromBuf and WriteBitsFromBuf
exceeds_recv_len(n) == n > recv_len

\* Mutant of byte_word: the byte is added, not ORed in.
byte_word_added(value, b) == value + b

\* `req.value | u16::from(b)`
byte_word(value, b) == BitOr(value, b)

\* Mutant of bit_word: most significant bit first.
bit_word_msb_first(value, b, k) == BitOr(value, BitAnd(Shr(b, 7 - k), 1))

\* `req.value | u16::from((b >> i) & 1)`
bit_word(value, b, k) == BitOr(value, BitAnd(Shr(b, k), 1))

\* Mutant of control_out_RebootToUSB: the transfer is accepted before the
\* dispatcher is called.
RebootToUSB_accepts_first(r) ==
    /\ Enter(r)
    /\ r.request_type = "Vendor"
    /\ try_from(r.request) = Ok("RebootToUSB")
    /\ resp' = accept(<< >>)
    /\ boot' = [activity_gpio |-> -1, disable_usb |-> FALSE, disable_picoboot |-> FALSE]
    /\ pc' = "reset_usb_boot"
    /\ UNCHANGED << bridge, fifos, locals, history, marks, rom_calls,
                    panic_info, hw_reads, rom_ret >>

control_out_RebootToUSB(r) ==
    /\ Enter(r)
    /\ r.request_type = "Vendor"
    /\ try_from(r.request) = Ok("RebootToUSB")
    /\ boot' = [activity_gpio |-> -1, disable_usb |-> FALSE, disable_picoboot |-> FALSE]
    /\ pc' = "reset_usb_boot"
    /\ UNCHANGED << resp, bridge, fifos, locals, history, marks, rom_calls,
                    panic_info, hw_reads, rom_ret >>

control_out_Write(r) ==
    /\ Enter(r)
    /\ r.request_type = "Vendor"
    /\ try_from(r.request) = Ok("Write")
    /\ pc' = "write_wait"
    /\ UNCHANGED << resp, bridge, fifos, locals, history, marks, rom >>

\* `while self.write_tx.is_full() {}` left
Write_wait ==
    /\ pc = "write_wait"
    /\ ~is_full(write_tx)
    /\ pc' = "write_push"
    /\ UNCHANGED << req, resp, bridge, fifos, locals, entry, io, history, marks, rom >>

\* Mutant of Write_push: a refused push gets no response.
Write_push_silent_on_refusal(hw_ok) ==
    /\ pc = "write_push"
    /\ LET w == write_u16_replicated(write_tx, req.value, hw_ok) IN
        /\ write_tx' = w.fifo
        /\ IF w.accepted
           THEN /\ pushed' = Append(pushed, req.value)
                /\ resp' = accept(<< >>)
           ELSE /\ pushed' = pushed
                /\ resp' = resp
    /\ pc' = "write_drain"
    /\ UNCHANGED << req, bridge, read_tx, read_rx, locals, entry, io, requested,
                    popped, marks, rom >>

\* the push, and the response that follows it at once
Write_push(hw_ok) ==
    /\ pc = "write_push"
    /\ LET w == write_u16_replicated(write_tx, req.value, hw_ok) IN
        /\ write_tx' = w.fifo
        /\ IF w.accepted
           THEN /\ pushed' = Append(pushed, req.value)
                /\ resp' = accept(<< >>)
           ELSE /\ pushed' = pushed
                /\ resp' = reject
    /\ pc' = "write_drain"
    /\ UNCHANGED << req, bridge, read_tx, read_rx, locals, entry, io, requested,
                    popped, marks, rom >>

\* `while !self.write_tx.is_empty() {}` left, and the handler returns
Write_drain ==
    /\ pc = "write_drain"
    /\ is_empty(write_tx)
    /\ pc' = "ret"
    /\ UNCHANGED << req, resp, bridge, fifos, locals, entry, io, history, marks, rom >>

control_out_WriteFromBuf(r) ==
    /\ Enter(r)
    /\ r.request_type = "Vendor"
    /\ try_from(r.request) = Ok("WriteFromBuf")
    /\ to_write' = r.index
    /\ IF exceeds_recv_len(r.index)
       THEN /\ resp' = reject
            /\ pc' = "ret"
       ELSE /\ resp' = resp
            /\ pc' = "wfb_loop"
    /\ UNCHANGED << bridge, fifos, b_idx, i, history, marks, rom >>

\* Mutant of WriteFromBuf_wait: the wait for room is missing.
WriteFromBuf_does_not_wait ==
    /\ pc = "wfb_loop"
    /\ b_idx < to_write
    /\ pc' = "wfb_push"
    /\ UNCHANGED << req, resp, bridge, fifos, locals, entry, io, history, marks, rom >>

\* one more byte to write, and `while self.write_tx.is_full() {}` left
WriteFromBuf_wait ==
    /\ pc = "wfb_loop"
    /\ b_idx < to_write
    /\ ~is_full(write_tx)
    /\ pc' = "wfb_push"
    /\ UNCHANGED << req, resp, bridge, fifos, locals, entry, io, history, marks, rom >>

\* Mutant of WriteFromBuf_push: a refused push still drops the bytes
\* written so far from the buffer.
WriteFromBuf_push_compacts_on_refusal(hw_ok) ==
    /\ pc = "wfb_push"
    /\ LET word == byte_word(req.value, recv_buffer[b_idx])
           w == write_u16_replicated(write_tx, word, hw_ok) IN
        /\ write_tx' = w.fifo
        /\ IF w.accepted
           THEN /\ pushed' = Append(pushed, word)
                /\ b_idx' = b_idx + 1
                /\ resp' = resp
                /\ pc' = "wfb_loop"
                /\ UNCHANGED << recv_buffer, recv_len >>
           ELSE /\ pushed' = pushed
                /\ b_idx' = b_idx
                /\ resp' = reject
                /\ pc' = "ret"
                /\ recv_buffer' = copy_within(recv_buffer, b_idx, BRIDGE_READ_SIZE, 0)
                /\ recv_len' = recv_len - b_idx
    /\ UNCHANGED << req, send_buffer, send_len, read_tx, read_rx, to_write, i, entry,
                    io, requested, popped, marks, rom >>

WriteFromBuf_push(hw_ok) ==
    /\ pc = "wfb_push"
    /\ LET word == byte_word(req.value, recv_buffer[b_idx])
           w == write_u16_replicated(write_tx, word, hw_ok) IN
        /\ write_tx' = w.fifo
        /\ IF w.accepted
           THEN /\ pushed' = Append(pushed, word)
                /\ b_idx' = b_idx + 1
                /\ resp' = resp
                /\ pc' = "wfb_loop"
           ELSE /\ pushed' = pushed
                /\ b_idx' = b_idx
                /\ resp' = reject
                /\ pc' = "ret"
    /\ UNCHANGED << req, bridge, read_tx, read_rx, to_write, i, entry, io, requested,
                    popped, marks, rom >>

\* the loop is over: copy_within(to_write.., 0) and recv_len -= to_write
WriteFromBuf_compact ==
    /\ pc = "wfb_loop"
    /\ b_idx >= to_write
    /\ recv_buffer' = copy_within(recv_buffer, to_write, BRIDGE_READ_SIZE, 0)
    /\ recv_len' = recv_len - to_write
    /\ pc' = "wfb_drain"
    /\ UNCHANGED << req, resp, send_buffer, send_len, fifos, locals, entry, io,
                    history, marks, rom >>

\* `while !self.write_tx.is_empty() {}` left, then accept
WriteFromBuf_drain ==
    /\ pc = "wfb_drain"
    /\ is_empty(write_tx)
    /\ resp' = accept(<< >>)
    /\ pc' = "ret"
    /\ UNCHANGED << req, bridge, fifos, locals, entry, io, history, marks, rom >>

control_out_WriteBitsFromBuf(r) ==
    /\ Enter(r)
    /\ r.request_type = "Vendor"
    /\ try_from(r.request) = Ok("WriteBitsFromBuf")
    /\ to_write' = r.index
    /\ IF exceeds_recv_len(r.index)
       THEN /\ resp' = reject
            /\ pc' = "ret"
       ELSE /\ resp' = resp
            /\ pc' = "wbfb_loop"
    /\ UNCHANGED << bridge, fifos, b_idx, i, history, marks, rom >>

\* one more bit to write, and `while self.write_tx.is_full() {}` left
WriteBitsFromBuf_wait ==
    /\ pc = "wbfb_loop"
    /\ b_idx < to_write
    /\ ~is_full(write_tx)
    /\ pc' = "wbfb_push"
    /\ UNCHANGED << req, resp, bridge, fifos, locals, entry, io, history, marks, rom >>

WriteBitsFromBuf_push(hw_ok) ==
    /\ pc = "wbfb_push"
    /\ LET word == bit_word(req.value, recv_buffer[b_idx], i)
           w == write_u16_replicated(write_tx, word, hw_ok) IN
        /\ write_tx' = w.fifo
        /\ IF w.accepted
           THEN /\ pushed' = Append(pushed, word)
                /\ i' = IF i + 1 < U8_BITS THEN i + 1 ELSE 0
                /\ b_idx' = IF i + 1 < U8_BITS THEN b_idx ELSE b_idx + 1
                /\ resp' = resp
                /\ pc' = "wbfb_loop"
           ELSE /\ pushed' = pushed
                /\ i' = i
                /\ b_idx' = b_idx
                /\ resp' = reject
                /\ pc' = "ret"
    /\ UNCHANGED << req, bridge, read_tx, read_rx, to_write, entry, io, requested,
                    popped, marks, rom >>

WriteBitsFromBuf_compact ==
    /\ pc = "wbfb_loop"
    /\ b_idx >= to_write
    /\ recv_buffer' = copy_within(recv_buffer, to_write, BRIDGE_READ_SIZE, 0)
    /\ recv_len' = recv_len - to_write
    /\ pc' = "wbfb_drain"
    /\ UNCHANGED << req, resp, send_buffer, send_len, fifos, locals, entry, io,
                    history, marks, rom >>

\* Mutant of WriteBitsFromBuf_drain: the accept does not wait for the
\* channel to drain.
WriteBitsFromBuf_drain_no_wait ==
    /\ pc = "wbfb_drain"
    /\ resp' = accept(<< >>)
    /\ pc' = "ret"
    /\ UNCHANGED << req, bridge, fifos, locals, entry, io, history, marks, rom >>

WriteBitsFromBuf_drain ==
    /\ pc = "wbfb_drain"
    /\ is_empty(write_tx)
    /\ resp' = accept(<< >>)
    /\ pc' = "ret"
    /\ UNCHANGED << req, bridge, fifos, locals, entry, io, history, marks, rom >>

\* `Ok(c) => todo!(...)`: a panic, and panic_halt stops the device
control_out_todo(r) ==
    /\ Enter(r)
    /\ r.request_type = "Vendor"
    /\ try_from(r.request).ok
    /\ try_from(r.request).cmd \notin
            {"RebootToUSB", "Write", "WriteFromBuf", "WriteBitsFromBuf"}
    /\ pc' = "panic"
    /\ panic_info' = [msg |-> "unimplemented command", code |-> r.request]
    /\ UNCHANGED << resp, bridge, fifos, locals, history, marks, boot, rom_calls,
                    hw_reads, rom_ret >>

control_out_Err(r) ==
    /\ Enter(r)
    /\ r.request_type = "Vendor"
    /\ ~try_from(r.request).ok
    /\ resp' = reject
    /\ pc' = "ret"
    /\ UNCHANGED << bridge, fifos, locals, history, marks, rom >>

control_out_not_vendor(r) ==
    /\ Enter(r)
    /\ r.request_type # "Vendor"
    /\ pc' = "ret"
    /\ UNCHANGED << resp, bridge, fifos, locals, history, marks, rom >>

control_out ==
    \E r \in Requests("Out") :
        \/ control_out_RebootToUSB(r)
        \/ control_out_Write(r)
        \/ control_out_WriteFromBuf(r)
        \/ control_out_WriteBitsFromBuf(r)
        \/ control_out_todo(r)
        \/ control_out_Err(r)
        \/ control_out_not_vendor(r)

(***************************************************************************)
(* Bridge::read, called by the poll loop after each poll that reports an   *)
(* event (main.rs:193-201): after a control handler returned, or for an    *)
(* endpoint event alone.  The loop then polls again.                       *)
(***************************************************************************)
\* What the bulk-out endpoint holds when it is read: nothing, or a packet.
EndpointStates ==
    {[present |-> FALSE, data |-> << >>]}
    \cup {[present |-> TRUE, data |-> p] : p \in Packets}

\* Whether the transfer whose handler just returned was rejected.
Rejected == resp # << >> /\ resp[Len(resp)].kind = "reject"

\* The buffers and lengths as they stand.
Snapshot == [recv_buffer |-> recv_buffer, recv_len |-> recv_len,
             send_buffer |-> send_buffer, send_len |-> send_len]

\* Mutant of recv_full: the buffer counts as full one byte late.
recv_full_off_by_one == recv_len > BRIDGE_READ_SIZE

\* `if self.recv_len >= self.recv_buffer.len()`
recv_full == recv_len >= BRIDGE_READ_SIZE

\* EndpointOut::read(&mut buf[start..]): Ok(amount) with the packet copied
\* to the front of the slice, or an error that leaves the slice alone (no
\* packet, or a packet longer than the slice).
ep_read(buf, start, ep) ==
    IF ep.present /\ Len(ep.data) <= BRIDGE_READ_SIZE - start
    THEN [ok |-> TRUE, amount |-> Len(ep.data),
          buf |-> [k \in 0 .. BRIDGE_READ_SIZE - 1 |->
                     IF k >= start /\ k < start + Len(ep.data)
                     THEN ep.data[k - start + 1] ELSE buf[k]]]
    ELSE [ok |-> FALSE, amount |-> 0, buf |-> buf]

read ==
    /\ pc \in {"poll", "ret"}
    /\ \E ep \in EndpointStates :
        LET full == recv_full
            res == IF full
                       THEN [ok |-> FALSE, amount |-> 0, buf |-> recv_buffer]
                       ELSE ep_read(recv_buffer, recv_len, ep)
        IN  /\ recv_buffer' = res.buf
            /\ recv_len' = IF res.ok THEN recv_len + res.amount ELSE recv_len
            /\ since_reset' = (since_reset /\ res.amount = 0)
            /\ rej_len' = IF res.amount > 0 THEN -1
                          ELSE IF pc = "poll" THEN rej_len
                          ELSE IF Rejected THEN entry.recv_len
                          ELSE -1
            /\ io' = [op |-> "read",
                      result |-> IF full THEN "WouldBlock"
                                 ELSE IF res.ok THEN "Ok" ELSE "Err",
                      amount |-> res.amount,
                      touched |-> ~full,
                      before |-> Snapshot]
    /\ pc' = "poll"
    /\ req' = NoReq
    /\ resp' = << >>
    /\ entry' = NoEntry
    /\ to_write' = 0
    /\ b_idx' = 0
    /\ i' = 0
    /\ pushed' = << >>
    /\ requested' = << >>
    /\ popped' = << >>
    /\ UNCHANGED << send_buffer, send_len, fifos, rom >>

(***************************************************************************)
(* Bridge::write.  The firmware's main never calls it; it is part of the   *)
(* Bridge interface and is exercised by SpecApi below.                     *)
(***************************************************************************)
\* What write_ep.write(&send_buffer[..n]) may answer: Ok(k) with k of the n
\* bytes taken, or an error.
EndpointWrites(n) ==
    {[ok |-> TRUE, amount |-> k] : k \in 0 .. n} \cup {[ok |-> FALSE, amount |-> 0]}

\* Mutant of write: whatever the endpoint took, the whole buffer is dropped.
write_drops_all ==
    /\ pc = "poll"
    /\ IF send_len = 0
       THEN /\ io' = [op |-> "write", result |-> "WouldBlock", amount |-> 0,
                      touched |-> FALSE, before |-> Snapshot]
            /\ UNCHANGED << send_buffer, send_len >>
       ELSE \E res \in EndpointWrites(send_len) :
            /\ io' = [op |-> "write", result |-> IF res.ok THEN "Ok" ELSE "Err",
                      amount |-> res.amount, touched |-> TRUE, before |-> Snapshot]
            /\ IF res.ok /\ res.amount > 0
               THEN /\ send_buffer' = send_buffer
                    /\ send_len' = 0
               ELSE UNCHANGED << send_buffer, send_len >>
    /\ UNCHANGED << pc, req, resp, recv_buffer, recv_len, fifos, locals, entry,
                    history, since_reset, rej_len, rom >>

\* Mutant of write: the endpoint is written also when nothing is staged.
write_touches_when_empty ==
    /\ pc = "poll"
    /\ \E res \in EndpointWrites(send_len) :
        /\ io' = [op |-> "write", result |-> IF res.ok THEN "Ok" ELSE "Err",
                  amount |-> res.amount, touched |-> TRUE, before |-> Snapshot]
        /\ IF res.ok /\ res.amount > 0
           THEN /\ send_buffer' = copy_within(send_buffer, res.amount, send_len, 0)
                /\ send_len' = send_len - res.amount
           ELSE UNCHANGED << send_buffer, send_len >>
    /\ UNCHANGED << pc, req, resp, recv_buffer, recv_len, fifos, locals, entry,
                    history, since_reset, rej_len, rom >>

write ==
    /\ pc = "poll"
    /\ IF send_len = 0
       THEN /\ io' = [op |-> "write", result |-> "WouldBlock", amount |-> 0,
                      touched |-> FALSE, before |-> Snapshot]
            /\ UNCHANGED << send_buffer, send_len >>
       ELSE \E res \in EndpointWrites(send_len) :
            /\ io' = [op |-> "write", result |-> IF res.ok THEN "Ok" ELSE "Err",
                      amount |-> res.amount, touched |-> TRUE, before |-> Snapshot]
            /\ IF res.ok /\ res.amount > 0
               THEN /\ send_buffer' = copy_within(send_buffer, res.amount, send_len, 0)
                    /\ send_len' = send_len - res.amount
               ELSE UNCHANGED << send_buffer, send_len >>
    /\ UNCHANGED << pc, req, resp, recv_buffer, recv_len, fifos, locals, entry,
                    history, since_reset, rej_len, rom >>

(***************************************************************************)
(* The PIO state machines (programs in main.rs:102-128).                   *)
(***************************************************************************)
\* Mutant of write_sm: the state machine stops before the last word.
write_sm_keeps_last ==
    /\ write_tx > 1
    /\ write_tx' = write_tx - 1
    /\ UNCHANGED << pc, req, resp, bridge, read_tx, read_rx, locals, entry, io,
                    history, marks, rom >>

\* write program: `out pins, 16` with autopull takes one word per bus cycle
write_sm ==
    /\ ~is_empty(write_tx)
    /\ write_tx' = write_tx - 1
    /\ UNCHANGED << pc, req, resp, bridge, read_tx, read_rx, locals, entry, io,
                    history, marks, rom >>

\* read program: `out pins, 8` takes a request word, `in pins, 8` with
\* autopush delivers what the bus returned
read_sm ==
    /\ ~is_empty(read_tx)
    /\ Len(read_rx) < FifoDepth
    /\ \E word \in ReadResults :
        /\ read_tx' = read_tx - 1
        /\ read_rx' = Append(read_rx, word)
    /\ UNCHANGED << pc, req, resp, bridge, write_tx, locals, entry, io, history,
                    marks, rom >>

(***************************************************************************)
(* ROM::reset_usb_boot and what it calls (rom.rs).  ROM memory and the     *)
(* security state are read when the code reads them.                       *)
(***************************************************************************)
\* u16::from_ne_bytes(*b"Mu"), little-endian: 'M' | 'u' << 8
BOOTROM_MAGIC == 30029

\* rom_table_code(b"UB") and rom_table_code(b"RB")
CODE_UB == 16981
CODE_RB == 16978

RT_FLAG_FUNC_ARM_SEC == 4
RT_FLAG_FUNC_ARM_NONSEC == 16
REBOOT_TYPE_BOOTSEL == 2
NO_RETURN_ON_SUCCESS == 256

BOOTROM_MAGIC_OFFSET == 16
BOOTROM_VERSION_OFFSET == 18
BOOTROM_FUNC_TABLE_OFFSET == 20
BOOTROM_WELL_KNOWN_PTR_SIZE == 2

\* BOOTROM_TABLE_LOOKUP_OFFSET of rp2040_rom_func_lookup and of
\* rp235x_rom_func_lookup
RP2040_TABLE_LOOKUP_OFFSET == 24
RP235X_TABLE_LOOKUP_OFFSET == BOOTROM_FUNC_TABLE_OFFSET + BOOTROM_WELL_KNOWN_PTR_SIZE

\* Values the halfword at BOOTROM_MAGIC_OFFSET and the byte at
\* BOOTROM_VERSION_OFFSET may hold.
RomMagics == {BOOTROM_MAGIC, 0}
RomVersions == {1, 2, 3}

\* What the current-generation reboot call may do: not return, or return a
\* status.
RebootOutcomes ==
    {[returns |-> FALSE, code |-> 0]}
    \cup {[returns |-> TRUE, code |-> c] : c \in {0, -1, -4}}

\* activity_gpio: Option<u8>, None as -1.  Pins 0, 5, 30; 32 and 33 out of
\* range; 0x85 and 0xA1 are pins 5 and 33 with the active-low bit.  (Pin 31
\* is left out: 1 << 31 does not fit the integers of the model.)
ActivityGpios == {-1, 0, 5, 30, 32, 33, 133, 161}

\* Arguments ROM::reset_usb_boot may be called with.
BootArgs ==
    [activity_gpio : ActivityGpios, disable_usb : BOOLEAN, disable_picoboot : BOOLEAN]

\* rom_read::<T>(addr) and what it returned; pointer values are not kept.
RomRead(addr, value) == [what |-> "rom", addr |-> addr, value |-> value]

\* cortex_m::asm::tt(null_mut()) & (1 << 22) != 0, as 1 or 0
TtQuery(secure) == [what |-> "tt", addr |-> 0, value |-> IF secure THEN 1 ELSE 0]

\* Mutant of check_bootrom_magic: an unknown version counts as the current
\* generation.
check_bootrom_magic_newer_is_current(magic, version) ==
    IF magic # BOOTROM_MAGIC THEN "None"
    ELSE CASE version = 1 -> "RP2040"
           [] OTHER -> "RP235x"

check_bootrom_magic(magic, version) ==
    IF magic # BOOTROM_MAGIC THEN "None"
    ELSE CASE version = 1 -> "RP2040"
           [] version = 2 -> "RP235x"
           [] OTHER -> "None"

\* `if disable_usb { 1 << 0 } else { 0 } | if disable_picoboot { 1 << 1 } else { 0 }`
disable_interfaces(disable_usb, disable_picoboot) ==
    BitOr(IF disable_usb THEN Shl(1, 0) ELSE 0,
          IF disable_picoboot THEN Shl(1, 1) ELSE 0)

\* Mutant of reboot_p0: active-low and gpio-enabled exchanged.
reboot_p0_gpio_bits_swapped(disable_usb, disable_picoboot, gpio_active_low, gpio_enabled) ==
    BitOr(BitOr(BitOr(IF disable_usb THEN Shl(1, 0) ELSE 0,
                      IF disable_picoboot THEN Shl(1, 1) ELSE 0),
                IF gpio_active_low THEN Shl(1, 5) ELSE 0),
          IF gpio_enabled THEN Shl(1, 4) ELSE 0)

\* third argument of the current-generation reboot call
reboot_p0(disable_usb, disable_picoboot, gpio_active_low, gpio_enabled) ==
    BitOr(BitOr(BitOr(IF disable_usb THEN Shl(1, 0) ELSE 0,
                      IF disable_picoboot THEN Shl(1, 1) ELSE 0),
                IF gpio_active_low THEN Shl(1, 4) ELSE 0),
          IF gpio_enabled THEN Shl(1, 5) ELSE 0)

\* The magic is read; the version only if the magic matched.
reset_usb_boot ==
    /\ pc = "reset_usb_boot"
    /\ \E magic \in RomMagics, version \in RomVersions :
        LET v == check_bootrom_magic(magic, version) IN
        /\ hw_reads' =
              IF magic # BOOTROM_MAGIC
              THEN Append(hw_reads, RomRead(BOOTROM_MAGIC_OFFSET, magic))
              ELSE hw_reads \o << RomRead(BOOTROM_MAGIC_OFFSET, magic),
                                 RomRead(BOOTROM_VERSION_OFFSET, version) >>
        /\ pc' = CASE v = "RP2040" -> "rp2040_lookup"
                   [] v = "RP235x" -> "rp235x_lookup"
                   [] OTHER -> "panic"
        /\ panic_info' = IF v = "None"
                             THEN [msg |-> "unknown bootrom version", code |-> 0]
                             ELSE panic_info
    /\ UNCHANGED << req, resp, bridge, fifos, locals, entry, io, history, marks,
                    boot, rom_calls, rom_ret >>

\* reset_usb_boot_rp2040, first statement: rp2040_rom_func_lookup reads the
\* table and lookup pointers and calls the ROM's table lookup function
rp2040_rom_func_lookup ==
    /\ pc = "rp2040_lookup"
    /\ hw_reads' = hw_reads \o << RomRead(BOOTROM_FUNC_TABLE_OFFSET, 0),
                                 RomRead(RP2040_TABLE_LOOKUP_OFFSET, 0) >>
    /\ rom_calls' = Append(rom_calls, [fn |-> "rom_table_lookup", args |-> << CODE_UB >>])
    /\ pc' = "rp2040_call"
    /\ UNCHANGED << req, resp, bridge, fifos, locals, entry, io, history, marks,
                    boot, panic_info, rom_ret >>

\* reset_usb_boot_rp2040, the rest: the pin checks and the call, which does
\* not return
reset_usb_boot_rp2040 ==
    /\ pc = "rp2040_call"
    /\ LET gpio == boot.activity_gpio IN
        IF gpio >= 0 /\ BitAnd(gpio, 128) # 0
        THEN /\ pc' = "panic"
             /\ panic_info' = [msg |-> "active-low gpio not supported on rp2040", code |-> 0]
             /\ rom_calls' = rom_calls
        ELSE IF gpio >= 32
        THEN /\ pc' = "panic"
             /\ panic_info' = [msg |-> "out-of-range gpio", code |-> gpio]
             /\ rom_calls' = rom_calls
        ELSE /\ pc' = "in_rom"
             /\ panic_info' = panic_info
             /\ rom_calls' = Append(rom_calls,
                    [fn |-> "reset_usb_boot",
                     args |-> << IF gpio >= 0 THEN Shl(1, gpio) ELSE 0,
                                 disable_interfaces(boot.disable_usb,
                                                    boot.disable_picoboot) >>])
    /\ UNCHANGED << req, resp, bridge, fifos, locals, entry, io, history, marks,
                    boot, hw_reads, rom_ret >>

\* reset_usb_boot_rp235x, first statement: rp235x_rom_func_lookup reads the
\* lookup pointer, asks the security state (tt) and calls the ROM's lookup
\* function with the mask
rp235x_rom_func_lookup ==
    /\ pc = "rp235x_lookup"
    /\ \E secure \in BOOLEAN :
        /\ hw_reads' = hw_reads \o << RomRead(RP235X_TABLE_LOOKUP_OFFSET, 0),
                                     TtQuery(secure) >>
        /\ rom_calls' = Append(rom_calls,
            [fn |-> "rom_func_lookup",
             args |-> << CODE_RB, IF secure THEN RT_FLAG_FUNC_ARM_SEC
                                           ELSE RT_FLAG_FUNC_ARM_NONSEC >>])
    /\ pc' = "rp235x_call"
    /\ UNCHANGED << req, resp, bridge, fifos, locals, entry, io, history, marks,
                    boot, panic_info, rom_ret >>

\* Mutant of reset_usb_boot_rp235x: a call that returns 0 is taken for
\* success and the function returns to its caller.
reset_usb_boot_rp235x_returns_on_zero ==
    /\ pc = "rp235x_call"
    /\ LET some == boot.activity_gpio >= 0
           active_low == some /\ BitAnd(boot.activity_gpio, 128) # 0
           gpio == IF some THEN BitAnd(boot.activity_gpio, 127) ELSE 0
       IN
        IF some /\ gpio >= 32
        THEN /\ pc' = "panic"
             /\ panic_info' = [msg |-> "out-of-range gpio", code |-> gpio]
             /\ UNCHANGED << rom_calls, rom_ret >>
        ELSE /\ rom_calls' = Append(rom_calls,
                    [fn |-> "reboot",
                     args |-> << BitOr(REBOOT_TYPE_BOOTSEL, NO_RETURN_ON_SUCCESS),
                                 1,
                                 reboot_p0(boot.disable_usb, boot.disable_picoboot,
                                           active_low, some),
                                 IF some THEN Shl(1, gpio) ELSE 0 >>])
             /\ \E out \in RebootOutcomes :
                    IF ~out.returns
                    THEN pc' = "in_rom" /\ panic_info' = panic_info /\ rom_ret' = rom_ret
                    ELSE IF out.code = 0
                    THEN pc' = "ret" /\ panic_info' = panic_info
                         /\ rom_ret' = Append(rom_ret, out.code)
                    ELSE pc' = "panic"
                         /\ panic_info' = [msg |-> "reboot failed, error code",
                                           code |-> out.code]
                         /\ rom_ret' = Append(rom_ret, out.code)
    /\ UNCHANGED << req, resp, bridge, fifos, locals, entry, io, history, marks,
                    boot, hw_reads >>

\* reset_usb_boot_rp235x, the rest: the pin check, the call, and
\* unreachable!() should the call return
reset_usb_boot_rp235x ==
    /\ pc = "rp235x_call"
    /\ LET some == boot.activity_gpio >= 0
           active_low == some /\ BitAnd(boot.activity_gpio, 128) # 0
           gpio == IF some THEN BitAnd(boot.activity_gpio, 127) ELSE 0
       IN
        IF some /\ gpio >= 32
        THEN /\ pc' = "panic"
             /\ panic_info' = [msg |-> "out-of-range gpio", code |-> gpio]
             /\ UNCHANGED << rom_calls, rom_ret >>
        ELSE /\ rom_calls' = Append(rom_calls,
                    [fn |-> "reboot",
                     args |-> << BitOr(REBOOT_TYPE_BOOTSEL, NO_RETURN_ON_SUCCESS),
                                 1,
                                 reboot_p0(boot.disable_usb, boot.disable_picoboot,
                                           active_low, some),
                                 IF some THEN Shl(1, gpio) ELSE 0 >>])
             /\ \E out \in RebootOutcomes :
                    IF ~out.returns
                    THEN pc' = "in_rom" /\ panic_info' = panic_info /\ rom_ret' = rom_ret
                    ELSE pc' = "panic"
                         /\ panic_info' = [msg |-> "reboot failed, error code",
                                           code |-> out.code]
                         /\ rom_ret' = Append(rom_ret, out.code)
    /\ UNCHANGED << req, resp, bridge, fifos, locals, entry, io, history, marks,
                    boot, hw_reads >>

(***************************************************************************)
(* The poll loop (main.rs:192-203) with the state machines beside it.      *)
(* pc = "panic" (panic_halt) and pc = "in_rom" are final.                  *)
(***************************************************************************)
\* One step with the FIFOs keeping (hw_ok) or possibly breaking their contract.
Step(hw_ok) ==
    \/ reset
    \/ control_in(hw_ok)
    \/ Read_wait
    \/ Read_pop
    \/ control_out
    \/ Write_wait
    \/ Write_push(hw_ok)
    \/ Write_drain
    \/ WriteFromBuf_wait
    \/ WriteFromBuf_push(hw_ok)
    \/ WriteFromBuf_compact
    \/ WriteFromBuf_drain
    \/ WriteBitsFromBuf_wait
    \/ WriteBitsFromBuf_push(hw_ok)
    \/ WriteBitsFromBuf_compact
    \/ WriteBitsFromBuf_drain
    \/ read
    \/ write_sm
    \/ read_sm
    \/ reset_usb_boot
    \/ rp2040_rom_func_lookup
    \/ reset_usb_boot_rp2040
    \/ rp235x_rom_func_lookup
    \/ reset_usb_boot_rp235x

\* The device with FIFOs that accept every word they have room for.
Next == Step(TRUE)

Spec == Init /\ [][Next]_vars

\* The device with FIFOs that may refuse a word (the hardware-contract
\* violation the reject branches after a push are written for).
NextFault == \E hw_ok \in BOOLEAN : Step(hw_ok)

SpecFault == Init /\ [][NextFault]_vars

\* The steps of the three writing control-out handlers after their entry.
WriteHandlerStep ==
    \/ Write_wait
    \/ Write_push(TRUE)
    \/ Write_drain
    \/ WriteFromBuf_wait
    \/ WriteFromBuf_push(TRUE)
    \/ WriteFromBuf_compact
    \/ WriteFromBuf_drain
    \/ WriteBitsFromBuf_wait
    \/ WriteBitsFromBuf_push(TRUE)
    \/ WriteBitsFromBuf_compact
    \/ WriteBitsFromBuf_drain

\* The device with a write state machine that keeps taking words, a CPU
\* that keeps executing the handler it is in, and a poll loop that goes on
\* to Bridge::read after a handler returned.
SpecLive ==
    /\ Init
    /\ [][Next]_vars
    /\ WF_vars(write_sm)
    /\ WF_vars(WriteHandlerStep)
    /\ WF_vars(read)

(***************************************************************************)
(* The Bridge interface on its own: Bridge::read and Bridge::write called  *)
(* in any order on a bridge whose send buffer holds any staged bytes.      *)
(***************************************************************************)
InitApi ==
    /\ pc = "poll"
    /\ req = NoReq
    /\ resp = << >>
    /\ send_buffer \in [0 .. BRIDGE_WRITE_SIZE - 1 -> Bytes]
    /\ send_len \in 0 .. BRIDGE_WRITE_SIZE
    /\ recv_buffer = [k \in 0 .. BRIDGE_READ_SIZE - 1 |-> 0]
    /\ recv_len = 0
    /\ write_tx = 0
    /\ read_tx = 0
    /\ read_rx = << >>
    /\ to_write = 0
    /\ b_idx = 0
    /\ i = 0
    /\ entry = NoEntry
    /\ pushed = << >>
    /\ requested = << >>
    /\ popped = << >>
    /\ since_reset = FALSE
    /\ rej_len = -1
    /\ io = NoIo
    /\ boot = NoBoot
    /\ rom_calls = << >>
    /\ panic_info = NoPanic
    /\ hw_reads = << >>
    /\ rom_ret = << >>

NextApi == read \/ write

SpecApi == InitApi /\ [][NextApi]_vars

(***************************************************************************)
(* The firmware with a loop that may also call Bridge::write between       *)
(* polls: what a flush would find in the states the firmware reaches.      *)
(***************************************************************************)
NextFlush == Next \/ write

SpecFlush == Init /\ [][NextFlush]_vars

(***************************************************************************)
(* ROM::reset_usb_boot on its own, called with any arguments.              *)
(***************************************************************************)
InitRom ==
    /\ pc = "reset_usb_boot"
    /\ req = NoReq
    /\ resp = << >>
    /\ send_buffer = [k \in 0 .. BRIDGE_WRITE_SIZE - 1 |-> 0]
    /\ send_len = 0
    /\ recv_buffer = [k \in 0 .. BRIDGE_READ_SIZE - 1 |-> 0]
    /\ recv_len = 0
    /\ write_tx = 0
    /\ read_tx = 0
    /\ read_rx = << >>
    /\ to_write = 0
    /\ b_idx = 0
    /\ i = 0
    /\ entry = NoEntry
    /\ pushed = << >>
    /\ requested = << >>
    /\ popped = << >>
    /\ since_reset = FALSE
    /\ rej_len = -1
    /\ io = NoIo
    /\ boot \in BootArgs
    /\ rom_calls = << >>
    /\ panic_info = NoPanic
    /\ hw_reads = << >>
    /\ rom_ret = << >>

NextRom ==
    \/ reset_usb_boot
    \/ rp2040_rom_func_lookup
    \/ reset_usb_boot_rp2040
    \/ rp235x_rom_func_lookup
    \/ reset_usb_boot_rp235x

\* The CPU keeps executing.
SpecRom == InitRom /\ [][NextRom]_vars /\ WF_vars(NextRom)

(***************************************************************************)
(* Properties.                                                             *)
(***************************************************************************)
\* The handler of a vendor request with this opcode, in this direction, is
\* running or has just returned.
Handling(dir, opcode) ==
    /\ req.direction = dir
    /\ req.request_type = "Vendor"
    /\ req.request = opcode

\* The transfer got exactly one response, of this kind.
RespIs(kind) == Len(resp) = 1 /\ resp[1].kind = kind

\* The buffers are as the handler found them.
BuffersAsAtEntry ==
    /\ recv_buffer = entry.recv_buffer
    /\ recv_len = entry.recv_len
    /\ send_buffer = entry.send_buffer
    /\ send_len = entry.send_len

\* The first recv_len bytes are the bytes that stood n places further on
\* when the handler started, and recv_len is n less.
FrontRemoved(n) ==
    /\ recv_len = entry.recv_len - n
    /\ \A k \in 0 .. recv_len - 1 : recv_buffer[k] = entry.recv_buffer[k + n]

Bit(x, k) == (x \div (2 ^ k)) % 2

\* w is the 16-bit bitwise OR of a and b.
IsOr(w, a, b) ==
    /\ w \in 0 .. 65535
    /\ \A k \in 0 .. 15 : (Bit(w, k) = 1) <=> (Bit(a, k) = 1 \/ Bit(b, k) = 1)

\* C1: a WriteFromBuf whose count N is at most recv_len and whose N pushes
\* were all accepted returns accepted, with recv_len reduced by N and the
\* bytes from index N onward moved, in order, to index 0.
WriteFromBufKeepsTail ==
    ( /\ pc = "ret"
      /\ Handling("Out", OP_WriteFromBuf)
      /\ req.index <= entry.recv_len
      /\ Len(pushed) = req.index )
    => (RespIs("accept") /\ FrontRemoved(req.index))

\* C1 witness: a WriteFromBuf that consumed some bytes and left some.
WriteFromBufKeepsTailWitness ==
    /\ pc = "ret"
    /\ Handling("Out", OP_WriteFromBuf)
    /\ req.index >= 1
    /\ req.index < entry.recv_len
    /\ Len(pushed) = req.index
    /\ RespIs("accept")

\* C2: a WriteFromBuf or WriteBitsFromBuf whose count exceeds recv_len is
\* rejected at once: nothing is pushed and both buffers stay as they were.
UnderflowRejected ==
    ( /\ Handling("Out", OP_WriteFromBuf) \/ Handling("Out", OP_WriteBitsFromBuf)
      /\ req.index > entry.recv_len )
    => ( /\ pc = "ret"
         /\ RespIs("reject")
         /\ pushed = << >>
         /\ BuffersAsAtEntry )

\* C2 witness: a count one past a non-empty buffer, rejected.
UnderflowRejectedWitness ==
    /\ Handling("Out", OP_WriteBitsFromBuf)
    /\ entry.recv_len >= 1
    /\ req.index = entry.recv_len + 1
    /\ RespIs("reject")

\* C3: an accepted WriteFromBuf pushed exactly N words, the k-th being the
\* request value ORed with the k-th buffered byte; with [0xAA, 0xBB, 0xCC]
\* buffered, N = 2 and value 0x0300 it pushed 0x03AA, 0x03BB and left [0xCC].
WriteFromBufWords ==
    ( /\ pc = "ret"
      /\ Handling("Out", OP_WriteFromBuf)
      /\ RespIs("accept") )
    => ( /\ Len(pushed) = req.index
         /\ \A k \in 1 .. req.index :
                IsOr(pushed[k], req.value, entry.recv_buffer[k - 1])
         /\ ( /\ entry.recv_len = 3
              /\ entry.recv_buffer[0] = 170
              /\ entry.recv_buffer[1] = 187
              /\ entry.recv_buffer[2] = 204
              /\ req.index = 2
              /\ req.value = 768 )
            => ( /\ pushed = << 938, 955 >>
                 /\ recv_len = 1
                 /\ recv_buffer[0] = 204 ) )

\* C3 witness: the scenario, and a second write whose value shares a bit
\* with the byte.
WriteFromBufWordsWitness ==
    /\ pc = "ret"
    /\ Handling("Out", OP_WriteFromBuf)
    /\ RespIs("accept")
    /\ entry.recv_len = 3
    /\ entry.recv_buffer[0] = 170
    /\ entry.recv_buffer[1] = 187
    /\ entry.recv_buffer[2] = 204
    /\ req.index = 2
    /\ req.value = 768

\* C4: an accepted WriteBitsFromBuf pushed exactly 8 * N words: for the j-th
\* consumed byte, bits 0 to 7 in that order, each word the request value
\* ORed with that one bit; the buffer is compacted as by WriteFromBuf.
WriteBitsFromBufWords ==
    ( /\ pc = "ret"
      /\ Handling("Out", OP_WriteBitsFromBuf)
      /\ RespIs("accept") )
    => ( /\ Len(pushed) = 8 * req.index
         /\ \A j \in 0 .. req.index - 1 : \A k \in 0 .. 7 :
                IsOr(pushed[8 * j + k + 1], req.value, Bit(entry.recv_buffer[j], k))
         /\ FrontRemoved(req.index) )

\* C4 witness: two bytes written bit by bit, one byte left.
WriteBitsFromBufWordsWitness ==
    /\ pc = "ret"
    /\ Handling("Out", OP_WriteBitsFromBuf)
    /\ RespIs("accept")
    /\ req.index = 2
    /\ entry.recv_len = 3
    /\ req.value = 1281

\* C5: whenever a Write transfer has been accepted, the write channel has
\* drained: no state has Write accepted and its word still in the FIFO.
WriteAcceptedAfterDrain ==
    (Handling("Out", OP_Write) /\ RespIs("accept")) => is_empty(write_tx)

\* The eight opcodes of the command set, and those a direction handles.
DefinedOpcodes == {0, 1, 16, 17, 18, 128, 129, 255}

WiredOpcodes(dir) == IF dir = "In" THEN {1, 128, 129} ELSE {0, 16, 18, 255}

\* C6: a vendor transfer whose opcode is in the command set but not wired
\* for its direction returns rejected, with no buffer or channel touched
\* (and so never halts the device).
UnwiredOpcodeStalls ==
    ( /\ req.request_type = "Vendor"
      /\ req.request \in DefinedOpcodes \ WiredOpcodes(req.direction) )
    => ( /\ pc = "ret"
         /\ RespIs("reject")
         /\ pushed = << >> /\ requested = << >> /\ popped = << >>
         /\ BuffersAsAtEntry )

\* C7: a vendor transfer, in or out, whose opcode is none of the eight
\* defined ones returns rejected, pushes and pops nothing, and leaves both
\* buffers as they were.
UnknownOpcodeRejected ==
    ( /\ req.request_type = "Vendor"
      /\ req.request \notin DefinedOpcodes )
    => ( /\ pc = "ret"
         /\ RespIs("reject")
         /\ pushed = << >> /\ requested = << >> /\ popped = << >>
         /\ BuffersAsAtEntry )

\* C7 witness: an unknown opcode on control-out with bytes buffered.
UnknownOpcodeRejectedWitness ==
    /\ req.request_type = "Vendor"
    /\ req.direction = "Out"
    /\ req.request = 2
    /\ entry.recv_len >= 1
    /\ RespIs("reject")

\* The number a 4-byte big-endian data stage encodes.
FromBE(d) == ((d[1] * 256 + d[2]) * 256 + d[3]) * 256 + d[4]

\* The transfer was accepted with 4 bytes that encode n, big-endian.
Reports(n) ==
    /\ RespIs("accept")
    /\ Len(resp[1].data) = 4
    /\ \A k \in 1 .. 4 : resp[1].data[k] \in 0 .. 255
    /\ FromBE(resp[1].data) = n

\* C8: GetRecvLen and GetSendLen are accepted with the current recv_len and
\* send_len as 4 big-endian bytes, touch no buffer and no channel, and a
\* GetRecvLen right after a rejected command reports the length from
\* before that command.
LengthsReported ==
    /\ (pc = "ret" /\ Handling("In", OP_GetRecvLen))
        => ( /\ Reports(recv_len)
             /\ rej_len >= 0 => Reports(rej_len)
             /\ pushed = << >> /\ requested = << >> /\ popped = << >>
             /\ BuffersAsAtEntry )
    /\ (pc = "ret" /\ Handling("In", OP_GetSendLen))
        => ( /\ Reports(send_len)
             /\ pushed = << >> /\ requested = << >> /\ popped = << >>
             /\ BuffersAsAtEntry )

\* C8 witness: GetRecvLen right after a command rejected with bytes buffered.
LengthsReportedWitness ==
    /\ pc = "ret"
    /\ Handling("In", OP_GetRecvLen)
    /\ rej_len >= 2
    /\ Reports(rej_len)

\* C9: from a link reset until the next bulk byte arrives both lengths are
\* 0, and a WriteFromBuf with count >= 1 is rejected without a push.
ResetClearsLengths ==
    since_reset
    => ( /\ recv_len = 0
         /\ send_len = 0
         /\ (Handling("Out", OP_WriteFromBuf) /\ req.index >= 1)
            => (pc = "ret" /\ RespIs("reject") /\ pushed = << >>) )

\* C9 witness: bytes were staged (they still stand in the array), the link
\* was reset, and a WriteFromBuf of one byte was rejected.
ResetClearsLengthsWitness ==
    /\ since_reset
    /\ Handling("Out", OP_WriteFromBuf)
    /\ req.index = 1
    /\ recv_buffer[0] = 170
    /\ recv_buffer[1] = 187
    /\ RespIs("reject")

\* C10: Read pushes the request value as the read request; if the push is
\* refused the transfer is rejected and nothing is popped; otherwise there
\* is no response while no result has arrived, and the response is an
\* accept of exactly the one popped byte.  The buffers are never touched.
ReadReturnsPoppedByte ==
    Handling("In", OP_Read)
    => ( /\ BuffersAsAtEntry
         /\ pushed = << >>
         /\ requested = << >>
            => (pc = "ret" /\ RespIs("reject") /\ popped = << >>)
         /\ requested # << >>
            => ( /\ requested = << req.value >>
                 /\ (rx_is_empty(read_rx) /\ popped = << >>) => resp = << >>
                 /\ pc = "ret" => resp # << >>
                 /\ resp # << >>
                    => ( /\ Len(popped) = 1
                         /\ resp = << [kind |-> "accept",
                                       data |-> << popped[1] % 256 >>] >> ) ) )

\* C10 witness: Read with value 0x0500 answered with the byte 0x7E.
ReadReturnsPoppedByteWitness ==
    /\ pc = "ret"
    /\ Handling("In", OP_Read)
    /\ req.value = 1280
    /\ requested = << 1280 >>
    /\ popped = << 126 >>
    /\ resp = << [kind |-> "accept", data |-> << 126 >>] >>

\* C11: both lengths stay within the capacity; Bridge::read appends what the
\* endpoint delivered, at most the free room, behind the bytes already
\* buffered and without altering them; at capacity it does not touch the
\* endpoint, changes nothing and answers WouldBlock; a failed endpoint read
\* leaves recv_len (and the buffer) as it was.
ReadAppendsWithinCapacity ==
    /\ recv_len \in 0 .. BRIDGE_READ_SIZE
    /\ send_len \in 0 .. BRIDGE_WRITE_SIZE
    /\ io.op = "read" =>
        /\ recv_len = io.before.recv_len + io.amount
        /\ io.amount <= BRIDGE_READ_SIZE - io.before.recv_len
        /\ \A k \in 0 .. io.before.recv_len - 1 :
                recv_buffer[k] = io.before.recv_buffer[k]
        /\ send_buffer = io.before.send_buffer
        /\ send_len = io.before.send_len
        /\ io.before.recv_len >= BRIDGE_READ_SIZE
            => ( /\ io.result = "WouldBlock"
                 /\ ~io.touched
                 /\ recv_buffer = io.before.recv_buffer
                 /\ recv_len = io.before.recv_len )
        /\ io.before.recv_len < BRIDGE_READ_SIZE
            => (io.touched /\ io.result \in {"Ok", "Err"})
        /\ io.result = "Err"
            => ( /\ recv_len = io.before.recv_len
                 /\ recv_buffer = io.before.recv_buffer )

\* C11 witness: Bridge::read on a full receive buffer.
ReadAppendsWithinCapacityWitness ==
    /\ io.op = "read"
    /\ io.before.recv_len = BRIDGE_READ_SIZE
    /\ io.result = "WouldBlock"
    /\ recv_len = BRIDGE_READ_SIZE

\* C12: Bridge::write, when the endpoint took k of the send_len staged
\* bytes, removes exactly those k from the front and keeps the rest in
\* order; a failed endpoint write, or send_len = 0 (WouldBlock, endpoint not
\* touched), leaves the send buffer as it was.  The receive buffer is never
\* affected.
WriteRemovesAccepted ==
    io.op = "write" =>
        /\ recv_buffer = io.before.recv_buffer
        /\ recv_len = io.before.recv_len
        /\ io.before.send_len = 0
            => ( /\ io.result = "WouldBlock"
                 /\ ~io.touched
                 /\ send_buffer = io.before.send_buffer
                 /\ send_len = 0 )
        /\ io.before.send_len > 0 => (io.touched /\ io.result \in {"Ok", "Err"})
        /\ io.result = "Err"
            => ( /\ send_buffer = io.before.send_buffer
                 /\ send_len = io.before.send_len )
        /\ io.result = "Ok"
            => ( /\ io.amount \in 0 .. io.before.send_len
                 /\ send_len = io.before.send_len - io.amount
                 /\ \A k \in 0 .. send_len - 1 :
                        send_buffer[k] = io.before.send_buffer[k + io.amount] )

\* C12 witness: one of three distinct staged bytes was taken.
WriteRemovesAcceptedWitness ==
    /\ io.op = "write"
    /\ io.result = "Ok"
    /\ io.amount = 1
    /\ io.before.send_len = 3
    /\ io.before.send_buffer[0] = 170
    /\ io.before.send_buffer[1] = 187
    /\ io.before.send_buffer[2] = 204
    /\ send_len = 2

\* Positions inside ROM::reset_usb_boot and what it calls; "in_rom" is the
\* reboot call that does not come back.
RomPcs == {"reset_usb_boot", "rp2040_lookup", "rp2040_call", "rp235x_lookup",
           "rp235x_call", "in_rom"}

\* C13: RebootToUSB calls the dispatcher with no activity pin and both
\* disable flags false; on every path the transfer gets no response, neither
\* accept nor reject, and the handler never returns to the poll loop.
RebootToUSBNeverAnswers ==
    Handling("Out", OP_RebootToUSB)
    => ( /\ boot = [activity_gpio |-> -1, disable_usb |-> FALSE,
                    disable_picoboot |-> FALSE]
         /\ resp = << >>
         /\ pc \in RomPcs \cup {"panic"} )

\* C13 witness: the path on which the current-generation ROM call came
\* back with an error.
RebootToUSBNeverAnswersWitness ==
    /\ Handling("Out", OP_RebootToUSB)
    /\ pc = "panic"
    /\ panic_info = [msg |-> "reboot failed, error code", code |-> -4]
    /\ resp = << >>

\* The dispatcher has classified the ROM.
Dispatched ==
    \/ pc \in RomPcs \ {"reset_usb_boot"}
    \/ pc = "panic" /\ panic_info.msg # "unimplemented command"

\* C14: the dispatcher reads the magic on every request; with a wrong magic
\* it reads nothing else, is fatal and calls nothing; with the right magic
\* it reads the version: 1 takes the legacy path (reboot call of 2
\* arguments), 2 the current path (reboot call of 4 arguments), any other
\* version is fatal with no ROM call at all.
RomDispatch ==
    Dispatched =>
        /\ Len(hw_reads) >= 1
        /\ hw_reads[1].what = "rom"
        /\ hw_reads[1].addr = 16
        /\ IF hw_reads[1].value # 30029
           THEN /\ Len(hw_reads) = 1
                /\ pc = "panic"
                /\ panic_info.msg = "unknown bootrom version"
                /\ rom_calls = << >>
           ELSE /\ Len(hw_reads) >= 2
                /\ hw_reads[2].what = "rom"
                /\ hw_reads[2].addr = 18
                /\ CASE hw_reads[2].value = 1 ->
                          /\ pc \in {"rp2040_lookup", "rp2040_call", "in_rom", "panic"}
                          /\ \A k \in 1 .. Len(rom_calls) :
                                /\ rom_calls[k].fn \in {"rom_table_lookup", "reset_usb_boot"}
                                /\ rom_calls[k].fn = "reset_usb_boot"
                                    => Len(rom_calls[k].args) = 2
                     [] hw_reads[2].value = 2 ->
                          /\ pc \in {"rp235x_lookup", "rp235x_call", "in_rom", "panic"}
                          /\ \A k \in 1 .. Len(rom_calls) :
                                /\ rom_calls[k].fn \in {"rom_func_lookup", "reboot"}
                                /\ rom_calls[k].fn = "reboot"
                                    => Len(rom_calls[k].args) = 4
                     [] OTHER ->
                          /\ Len(hw_reads) = 2
                          /\ pc = "panic"
                          /\ panic_info.msg = "unknown bootrom version"
                          /\ rom_calls = << >>

\* C14 witness: the right magic with version 3.
RomDispatchWitness ==
    /\ pc = "panic"
    /\ hw_reads = << RomRead(16, 30029), RomRead(18, 3) >>
    /\ rom_calls = << >>

\* C15: a request that is fatal for its activity pin (index out of range,
\* or active-low on the legacy generation) has made no call into ROM code.
PinFaultBeforeRomCall ==
    ( /\ pc = "panic"
      /\ panic_info.msg \in {"out-of-range gpio",
                             "active-low gpio not supported on rp2040"} )
    => rom_calls = << >>

\* A value came back from the reboot call: the dispatcher is in the fatal
\* state that carries it, and made that one call only.
ReturnIsFatal ==
    rom_ret # << >>
    => ( /\ Len(rom_ret) = 1
         /\ pc = "panic"
         /\ panic_info = [msg |-> "reboot failed, error code", code |-> rom_ret[1]]
         /\ Cardinality({k \in 1 .. Len(rom_calls) : rom_calls[k].fn = "reboot"}) = 1 )

\* C19: ROM::reset_usb_boot never returns to its caller: the execution
\* stays inside it or in the fatal state, and ends in the ROM reboot call or
\* in the fatal state; a value returned by the current-generation reboot
\* call is fatal, with that value.
BootloaderEntryNeverReturns ==
    /\ [](pc \in RomPcs \cup {"panic"} /\ ReturnIsFatal)
    /\ <>(pc \in {"in_rom", "panic"})

\* C19 witness: the reboot call returned 0.
BootloaderEntryNeverReturnsWitness ==
    /\ rom_ret = << 0 >>
    /\ pc = "panic"
    /\ panic_info.code = 0

\* C20: the arguments of the ROM calls, for all arguments of the request.
\* Legacy: pin mask (1 << pin, or 0 without a pin) and a mask with bit 0 =
\* disable_usb, bit 1 = disable_picoboot.  Current: flags 0x0002 | 0x0100,
\* delay 1, a flag word with bit 0 = disable_usb, bit 1 = disable_picoboot,
\* bit 4 = active-low (bit 7 of the pin argument), bit 5 = a pin is given,
\* and pin mask 1 << (pin & 0x7F) or 0; the lookup mask is the secure one
\* exactly when the security query said secure.
RebootArgsEncoded ==
    \A k \in 1 .. Len(rom_calls) :
        LET c == rom_calls[k]
            some == boot.activity_gpio >= 0
            active_low == boot.activity_gpio >= 128
        IN
        /\ c.fn = "reset_usb_boot"
            => ( /\ Len(c.args) = 2
                 /\ c.args[1] = (IF some THEN 2 ^ boot.activity_gpio ELSE 0)
                 /\ c.args[2] \in 0 .. 3
                 /\ (Bit(c.args[2], 0) = 1) <=> boot.disable_usb
                 /\ (Bit(c.args[2], 1) = 1) <=> boot.disable_picoboot )
        /\ c.fn = "reboot"
            => ( /\ Len(c.args) = 4
                 /\ c.args[1] = 258
                 /\ c.args[2] = 1
                 /\ c.args[3] \in 0 .. 63
                 /\ (Bit(c.args[3], 0) = 1) <=> boot.disable_usb
                 /\ (Bit(c.args[3], 1) = 1) <=> boot.disable_picoboot
                 /\ Bit(c.args[3], 2) = 0
                 /\ Bit(c.args[3], 3) = 0
                 /\ (Bit(c.args[3], 4) = 1) <=> active_low
                 /\ (Bit(c.args[3], 5) = 1) <=> some
                 /\ c.args[4] = (IF some THEN 2 ^ (boot.activity_gpio % 128) ELSE 0) )
        /\ c.fn = "rom_func_lookup"
            => \E j \in 1 .. Len(hw_reads) :
                    /\ hw_reads[j].what = "tt"
                    /\ c.args[2] = (IF hw_reads[j].value = 1 THEN 4 ELSE 16)

\* C20 witness: the current-generation call for pin 5, active-low, with
\* disable_usb set, after a secure lookup.
RebootArgsEncodedWitness ==
    /\ boot = [activity_gpio |-> 133, disable_usb |-> TRUE, disable_picoboot |-> FALSE]
    /\ Len(rom_calls) = 2
    /\ rom_calls[1] = [fn |-> "rom_func_lookup", args |-> << 16978, 4 >>]
    /\ rom_calls[2] = [fn |-> "reboot", args |-> << 258, 1, 49, 32 >>]

\* The number of words a buffered write pushes for its count.
WordsFor(opcode, n) == IF opcode = OP_WriteBitsFromBuf THEN 8 * n ELSE n

\* A WriteFromBuf or WriteBitsFromBuf control-out transfer is being handled
\* or has just returned.
HandlingBufferedWrite ==
    Handling("Out", OP_WriteFromBuf) \/ Handling("Out", OP_WriteBitsFromBuf)

\* C16: a WriteFromBuf or WriteBitsFromBuf has no response while it pushes,
\* compacts or waits; its accept comes last, with all N (8N) words pushed,
\* the buffer compacted, recv_len reduced and the write channel empty.
BufferedWriteAcceptedLast ==
    HandlingBufferedWrite
    => ( /\ pc # "ret" => resp = << >>
         /\ (resp # << >> /\ resp[1].kind = "accept")
            => ( /\ pc = "ret"
                 /\ Len(resp) = 1
                 /\ Len(pushed) = WordsFor(req.request, req.index)
                 /\ FrontRemoved(req.index)
                 /\ is_empty(write_tx) ) )

\* C16 witness: a WriteBitsFromBuf of one byte, accepted.
BufferedWriteAcceptedLastWitness ==
    /\ pc = "ret"
    /\ Handling("Out", OP_WriteBitsFromBuf)
    /\ req.index = 1
    /\ RespIs("accept")
    /\ Len(pushed) = 8
    /\ is_empty(write_tx)

\* C17: a buffered write one of whose pushes was refused, after k words had
\* gone out, is rejected at once: it has returned with that one response,
\* pushed no word after the refusal, left recv_len and the receive buffer as
\* it found them, and the words pushed before stay pushed; the device has
\* not halted.
PushRefusedRejects ==
    ( /\ HandlingBufferedWrite
      /\ req.index <= entry.recv_len
      /\ resp # << >>
      /\ resp[1].kind = "reject" )
    => ( /\ pc = "ret"
         /\ Len(resp) = 1
         /\ panic_info = NoPanic
         /\ BuffersAsAtEntry
         /\ Len(pushed) < WordsFor(req.request, req.index)
         /\ \A n \in 1 .. Len(pushed) :
                IF req.request = OP_WriteFromBuf
                THEN IsOr(pushed[n], req.value, entry.recv_buffer[n - 1])
                ELSE IsOr(pushed[n], req.value,
                          Bit(entry.recv_buffer[(n - 1) \div 8], (n - 1) % 8)) )

\* C17 witness: a WriteFromBuf of two bytes refused at its second word.
PushRefusedRejectsWitness ==
    /\ pc = "ret"
    /\ Handling("Out", OP_WriteFromBuf)
    /\ req.index = 2
    /\ entry.recv_len >= 2
    /\ Len(pushed) = 1
    /\ RespIs("reject")
    /\ recv_len = entry.recv_len

\* The handler of Write, WriteFromBuf or WriteBitsFromBuf is past its entry.
InWriteHandler ==
    pc \in {"write_wait", "write_push", "write_drain", "wfb_loop", "wfb_push",
            "wfb_drain", "wbfb_loop", "wbfb_push", "wbfb_drain"}

\* The handler stands in a busy-wait whose condition the channel does not meet.
Stalled ==
    \/ pc \in {"write_drain", "wfb_drain", "wbfb_drain"} /\ ~is_empty(write_tx)
    \/ pc = "write_wait" /\ is_full(write_tx)
    \/ pc \in {"wfb_loop", "wbfb_loop"} /\ b_idx < to_write /\ is_full(write_tx)

\* C18: with a write channel that keeps taking words, every Write,
\* WriteFromBuf and WriteBitsFromBuf handler returns with its one response
\* and the loop gets back to polling; and a step in which the channel does
\* not drain leaves a stalled handler where it is, with no response and no
\* other request served (there is no timeout).
BusyWaitsLive ==
    /\ InWriteHandler ~> (pc = "ret" /\ Len(resp) = 1)
    /\ (pc = "ret") ~> (pc = "poll")
    /\ [][ (Stalled /\ write_tx' >= write_tx)
           => ( /\ pc' = pc
                /\ req' = req
                /\ resp' = resp
                /\ recv_buffer' = recv_buffer
                /\ recv_len' = recv_len
                /\ io' = io ) ]_vars

\* C18 witness: WriteBitsFromBuf waiting for room in a full channel.
BusyWaitsLiveWitness ==
    /\ pc = "wbfb_loop"
    /\ b_idx < to_write
    /\ is_full(write_tx)
    /\ resp = << >>

\* C21: a vendor control transfer whose handler has returned has exactly
\* one response, an accept or a reject, on every path, the refused-push and
\* the underflow paths included; no transfer ever has two.
OneResponsePerTransfer ==
    /\ Len(resp) <= 1
    /\ (pc = "ret" /\ req.request_type = "Vendor")
        => ( /\ Len(resp) = 1
             /\ resp[1].kind \in {"accept", "reject"} )

\* C21 witness: a Write whose push was refused, returned with its reject.
OneResponsePerTransferWitness ==
    /\ pc = "ret"
    /\ Handling("Out", OP_Write)
    /\ pushed = << >>
    /\ resp = << [kind |-> "reject", data |-> << >>] >>

\* C22: send_len is 0 in every reachable state; so GetSendLen answers four
\* zero bytes, and Bridge::write answers WouldBlock without touching the
\* bulk-in endpoint: no bulk-in payload is ever produced.
SendNeverStaged ==
    /\ send_len = 0
    /\ (pc = "ret" /\ Handling("In", OP_GetSendLen))
        => resp = << [kind |-> "accept", data |-> << 0, 0, 0, 0 >>] >>
    /\ io.op = "write"
        => ( /\ io.result = "WouldBlock"
             /\ ~io.touched
             /\ io.amount = 0 )

\* C22 witness: a flush attempted with two bulk bytes received.
SendNeverStagedWitness ==
    /\ io.op = "write"
    /\ io.result = "WouldBlock"
    /\ recv_len = 2
    /\ recv_buffer[0] = 187

\* C23: with a channel that only the engine fills and the hardware only
\* empties, the channel has room at every push that follows the wait, so
\* Write is never rejected, a buffered write is rejected only for a count
\* above recv_len, and a buffered write with N <= recv_len that returns was
\* accepted with all its words pushed and N bytes consumed.
PushAfterWaitAccepted ==
    /\ pc \in {"write_push", "wfb_push", "wbfb_push"} => ~is_full(write_tx)
    /\ (Handling("Out", OP_Write) /\ resp # << >>) => RespIs("accept")
    /\ (HandlingBufferedWrite /\ resp # << >> /\ resp[1].kind = "reject")
        => req.index > entry.recv_len
    /\ (HandlingBufferedWrite /\ pc = "ret" /\ req.index <= entry.recv_len)
        => ( /\ RespIs("accept")
             /\ Len(pushed) = WordsFor(req.request, req.index)
             /\ FrontRemoved(req.index) )

\* C23 witness: a WriteFromBuf of more words than the channel holds,
\* accepted.
PushAfterWaitAcceptedWitness ==
    /\ pc = "ret"
    /\ Handling("Out", OP_WriteFromBuf)
    /\ req.index > FifoDepth
    /\ Len(pushed) = req.index
    /\ RespIs("accept")
    /\ recv_len = entry.recv_len - req.index

====
